---- MODULE Spec2Model ----
(***************************************************************************)
(* Model of the authentication primitives of VauxlNet/core:                *)
(*   src/src/crypto/token.rs  (pae, le64, sign_paseto, verify_paseto)      *)
(*   src/src/crypto/auth.rs   (hash_password, verify_password,             *)
(*                             sign_token, verify_token, generate_keypair) *)
(*                                                                         *)
(* Strings and byte vectors are sequences of integers 0..255 (a string is  *)
(* the sequence of its ASCII codes).  A Result is a record with a field    *)
(* ok; Ok(v) carries val, Err(e) carries err.                              *)
(***************************************************************************)
EXTENDS Integers, Sequences, FiniteSets, TLC

(***************************************************************************)
(* Bounds of the model.                                                    *)
(***************************************************************************)
\* number of distinct seeds the random source can return
NumSeeds == 2
\* number of distinct salts the random source can return
NumSalts == 2
\* number of distinct passwords tried
NumPasswords == 3
\* longest message handed to pae in the encoder specification
MaxPaeLen == 2

(***************************************************************************)
(* Program constants.                                                      *)
(***************************************************************************)
\* token.rs:10  b"v4.public."
HEADER == <<118, 52, 46, 112, 117, 98, 108, 105, 99, 46>>
\* token.rs:19,22 / auth.rs:59  length of the secret seed
SECRET_LEN == 32
\* token.rs:100  length of a public key
PUBLIC_LEN == 32
\* token.rs:92  Signature::from_bytes takes [u8; 64]
SIGNATURE_LEN == 64
\* auth.rs:65  length of the expanded private key
PRIVATE_LEN == 64
\* auth.rs:18-20  Argon2 parameters of hash_password
M_COST == 65536
T_COST == 3
P_COST == 4
\* argon2::Params::DEFAULT_* used by Argon2::default() (auth.rs:36)
DEFAULT_M_COST == 19456
DEFAULT_T_COST == 2
DEFAULT_P_COST == 1
\* argon2::Version::V0x13 (auth.rs:25)
V0x13 == 19
\* argon2::Version::V0x10
V0x10 == 16

DOT == 46

Ok(v) == [ok |-> TRUE, val |-> v]
Err(e) == [ok |-> FALSE, err |-> e]

(***************************************************************************)
(* Byte helpers.                                                           *)
(***************************************************************************)
Pow2(k) == CASE k = 0 -> 1 [] k = 1 -> 2 [] k = 2 -> 4 [] k = 3 -> 8
             [] k = 4 -> 16 [] k = 5 -> 32 [] k = 6 -> 64 [] k = 7 -> 128

\* c with bit k inverted
FlipBit(c, k) == IF (c \div Pow2(k)) % 2 = 1 THEN c - Pow2(k) ELSE c + Pow2(k)

StartsWith(s, p) == Len(s) >= Len(p) /\ SubSeq(s, 1, Len(p)) = p

\* positions of the byte c in s
Positions(s, c) == {i \in 1..Len(s) : s[i] = c}

RECURSIVE SplitOn(_, _)
\* str::split(c): the pieces between the occurrences of c (n occurrences
\* give n + 1 pieces, empty pieces included)
SplitOn(s, c) ==
    IF Positions(s, c) = {} THEN <<s>>
    ELSE LET i == CHOOSE j \in Positions(s, c) : \A k \in Positions(s, c) : j <= k
         IN <<SubSeq(s, 1, i - 1)>> \o SplitOn(SubSeq(s, i + 1, Len(s)), c)

(***************************************************************************)
(* token.rs:136-138  le64 and token.rs:119-134  pae                        *)
(***************************************************************************)
RECURSIVE le_bytes(_, _)
\* u64::to_le_bytes: least significant byte first
le_bytes(n, k) == IF k = 0 THEN <<>> ELSE <<n % 256>> \o le_bytes(n \div 256, k - 1)

le64(n) == le_bytes(n, 8)

\* pae with a zero-length footer omitted instead of encoded as a length-0 piece
pae_omit_empty_footer(header, m, footer) ==
    LET o1 == le64(3)
        o2 == o1 \o le64(Len(header))
        o3 == o2 \o header
        o4 == o3 \o le64(Len(m))
        o5 == o4 \o m
    IN IF footer = <<>> THEN o5 ELSE o5 \o le64(Len(footer)) \o footer

pae(header, m, footer) ==
    LET o1 == le64(3)
        o2 == o1 \o le64(Len(header))
        o3 == o2 \o header
        o4 == o3 \o le64(Len(m))
        o5 == o4 \o m
        o6 == o5 \o le64(Len(footer))
        o7 == o6 \o footer
    IN o7

(***************************************************************************)
(* hex::encode / hex::decode                                               *)
(***************************************************************************)
HexDigit(v) == IF v < 10 THEN 48 + v ELSE 87 + v

\* value of a hex digit, -1 when the character is not one
HexVal(c) == IF c \in 48..57 THEN c - 48
             ELSE IF c \in 97..102 THEN c - 87
             ELSE IF c \in 65..70 THEN c - 55
             ELSE -1

hex_encode(bytes) ==
    [j \in 1..(2 * Len(bytes)) |->
        LET b == bytes[(j + 1) \div 2]
        IN IF j % 2 = 1 THEN HexDigit(b \div 16) ELSE HexDigit(b % 16)]

hex_decode(s) ==
    IF Len(s) % 2 = 1 THEN Err("Odd number of digits")
    ELSE IF \E i \in 1..Len(s) : HexVal(s[i]) = -1 THEN Err("Invalid character")
    ELSE Ok([k \in 1..(Len(s) \div 2) |-> 16 * HexVal(s[2 * k - 1]) + HexVal(s[2 * k])])

(***************************************************************************)
(* base64 URL_SAFE_NO_PAD  (token.rs:1, 53-54, 85-90)                      *)
(***************************************************************************)
\* the URL-safe alphabet: A-Z a-z 0-9 - _
B64Char(v) == IF v < 26 THEN 65 + v
              ELSE IF v < 52 THEN 97 + (v - 26)
              ELSE IF v < 62 THEN 48 + (v - 52)
              ELSE IF v = 62 THEN 45
              ELSE 95

\* value of a symbol, -1 when the character is not in the alphabet
B64Val(c) == IF c \in 65..90 THEN c - 65
             ELSE IF c \in 97..122 THEN c - 97 + 26
             ELSE IF c \in 48..57 THEN c - 48 + 52
             ELSE IF c = 45 THEN 62
             ELSE IF c = 95 THEN 63
             ELSE -1

ByteAt(bytes, i) == IF i <= Len(bytes) THEN bytes[i] ELSE 0

b64_encode(bytes) ==
    [j \in 1..((4 * Len(bytes) + 2) \div 3) |->
        LET g == (j - 1) \div 4
            p == (j - 1) % 4
            b0 == ByteAt(bytes, 3 * g + 1)
            b1 == ByteAt(bytes, 3 * g + 2)
            b2 == ByteAt(bytes, 3 * g + 3)
        IN B64Char(CASE p = 0 -> b0 \div 4
                     [] p = 1 -> (b0 % 4) * 16 + b1 \div 16
                     [] p = 2 -> (b1 % 16) * 4 + b2 \div 64
                     [] p = 3 -> b2 % 64)]

SymAt(s, i) == IF i <= Len(s) THEN B64Val(s[i]) ELSE 0

\* b64_decode with the check of the unused low bits of the last symbol left out
b64_decode_trailing_bits(s) ==
    IF \E i \in 1..Len(s) : B64Val(s[i]) = -1 THEN Err("Invalid byte")
    ELSE IF Len(s) % 4 = 1 THEN Err("Invalid length")
    ELSE Ok([k \in 1..((3 * Len(s)) \div 4) |->
            LET g == (k - 1) \div 3
                p == (k - 1) % 3
                v0 == SymAt(s, 4 * g + 1)
                v1 == SymAt(s, 4 * g + 2)
                v2 == SymAt(s, 4 * g + 3)
                v3 == SymAt(s, 4 * g + 4)
            IN CASE p = 0 -> v0 * 4 + v1 \div 16
                 [] p = 1 -> (v1 % 16) * 16 + v2 \div 4
                 [] p = 2 -> (v2 % 4) * 64 + v3])

\* decoding without padding: every character is in the alphabet, the length
\* is not 1 mod 4, and the unused low bits of the last symbol are zero
b64_decode(s) ==
    IF \E i \in 1..Len(s) : B64Val(s[i]) = -1 THEN Err("Invalid byte")
    ELSE IF Len(s) % 4 = 1 THEN Err("Invalid length")
    ELSE IF Len(s) % 4 = 2 /\ B64Val(s[Len(s)]) % 16 # 0 THEN Err("Invalid last symbol")
    ELSE IF Len(s) % 4 = 3 /\ B64Val(s[Len(s)]) % 4 # 0 THEN Err("Invalid last symbol")
    ELSE Ok([k \in 1..((3 * Len(s)) \div 4) |->
            LET g == (k - 1) \div 3
                p == (k - 1) % 3
                v0 == SymAt(s, 4 * g + 1)
                v1 == SymAt(s, 4 * g + 2)
                v2 == SymAt(s, 4 * g + 3)
                v3 == SymAt(s, 4 * g + 4)
            IN CASE p = 0 -> v0 * 4 + v1 \div 16
                 [] p = 1 -> (v1 % 16) * 16 + v2 \div 4
                 [] p = 2 -> (v2 % 4) * 64 + v3])

(***************************************************************************)
(* serde_json for the claims type.  Claims are unsigned integers; the      *)
(* signer serialises any of them, the verifier's target type T is u8.      *)
(***************************************************************************)
U8_MAX == 255

RECURSIVE Digits(_)
Digits(n) == IF n < 10 THEN <<48 + n>> ELSE Digits(n \div 10) \o <<48 + (n % 10)>>

\* serde_json::to_string(claims).as_bytes()  (token.rs:30-31)
to_json(claims) == Digits(claims)

\* JSON whitespace: space, tab, line feed, carriage return
IsWs(c) == c \in {32, 9, 10, 13}

IsDigit(c) == c \in 48..57

\* serde_json::from_slice::<u8>(m)  (token.rs:113): optional whitespace
\* around one JSON number without sign, fraction, exponent or leading zero,
\* that fits the target type
from_json(m) ==
    LET ink == {i \in 1..Len(m) : ~IsWs(m[i])}
    IN IF ink = {} THEN Err("EOF while parsing a value")
       ELSE LET lo == CHOOSE i \in ink : \A j \in ink : i <= j
                hi == CHOOSE i \in ink : \A j \in ink : j <= i
                d == SubSeq(m, lo, hi)
            IN IF \E i \in 1..Len(d) : ~IsDigit(d[i]) THEN Err("invalid type or syntax")
               ELSE IF Len(d) > 1 /\ d[1] = 48 THEN Err("invalid number")
               ELSE IF Len(d) > 3 THEN Err("invalid value: out of range")
               ELSE LET v == IF Len(d) = 1 THEN d[1] - 48
                             ELSE IF Len(d) = 2 THEN 10 * (d[1] - 48) + (d[2] - 48)
                             ELSE 100 * (d[1] - 48) + 10 * (d[2] - 48) + (d[3] - 48)
                    IN IF v > U8_MAX THEN Err("invalid value: out of range") ELSE Ok(v)

(***************************************************************************)
(* Ed25519 (ed25519_dalek), as an ideal deterministic signature scheme:    *)
(* the public key is an injective function of the seed, a signature is an  *)
(* injective function of the message for a fixed key and of the key for a  *)
(* fixed message, and a signature verifies exactly when it is the          *)
(* signature of that message under the secret key of the public key.       *)
(***************************************************************************)
\* the k-th value OsRng.fill_bytes can produce (auth.rs:59-60)
Seed(k) == [i \in 1..SECRET_LEN |-> (k * 37 + i * 11) % 256]

Seeds == {Seed(k) : k \in 1..NumSeeds}

\* SigningKey::from_bytes(seed).verifying_key()  (auth.rs:61-62)
verifying_key(seed) == [i \in 1..PUBLIC_LEN |-> (3 * seed[SECRET_LEN + 1 - i] + 1) % 256]

\* SigningKey::from_bytes(seed).sign(m2).to_bytes()  (token.rs:25, 43, 54)
sign(seed, m2) ==
    [i \in 1..SIGNATURE_LEN |->
        (seed[((i - 1) % SECRET_LEN) + 1] + ByteAt(m2, i) + 5 * ByteAt(m2, i + SIGNATURE_LEN)) % 256]

\* VerifyingKey::from_bytes(pk) succeeds  (token.rs:103): the bytes are the
\* encoding of a curve point.  Keys derived from a seed are; of the other
\* byte strings some are and some are not.
is_point(pk) == (\E s \in Seeds : verifying_key(s) = pk) \/ pk[1] % 2 = 1

\* verify that accepts a signature made under any key
verify_any_key(pk, m2, sig) == \E s \in Seeds : sig = sign(s, m2)

\* verifying_key.verify(m2, signature) succeeds  (token.rs:108-110)
verify(pk, m2, sig) == \E s \in Seeds : verifying_key(s) = pk /\ sig = sign(s, m2)

(***************************************************************************)
(* auth.rs:58-73  generate_keypair, for the seed the random source gave.   *)
(* Returns <<public_key_hex, private_key_hex>>.                            *)
(***************************************************************************)
generate_keypair(secret_bytes) ==
    LET vk == verifying_key(secret_bytes)
        private_key_bytes == secret_bytes \o vk
    IN <<hex_encode(vk), hex_encode(private_key_bytes)>>

\* sign_paseto that signs the message itself instead of its PAE
sign_paseto_raw_message(claims, private_key_hex) ==
    LET key == hex_decode(private_key_hex)
    IN IF ~key.ok THEN Err(key.err)
       ELSE IF Len(key.val) < SECRET_LEN THEN Err("Invalid private key length")
       ELSE LET secret == SubSeq(key.val, 1, SECRET_LEN)
                m == to_json(claims)
                signature == sign(secret, m)
            IN Ok(HEADER \o b64_encode(m) \o <<DOT>> \o b64_encode(signature))

\* sign_paseto that takes the last 32 bytes of the key as the secret
sign_paseto_last32(claims, private_key_hex) ==
    LET key == hex_decode(private_key_hex)
    IN IF ~key.ok THEN Err(key.err)
       ELSE IF Len(key.val) < SECRET_LEN THEN Err("Invalid private key length")
       ELSE LET secret == SubSeq(key.val, Len(key.val) - SECRET_LEN + 1, Len(key.val))
                m == to_json(claims)
                m2 == pae(HEADER, m, <<>>)
                signature == sign(secret, m2)
            IN Ok(HEADER \o b64_encode(m) \o <<DOT>> \o b64_encode(signature))

(***************************************************************************)
(* token.rs:12-62  sign_paseto                                             *)
(***************************************************************************)
sign_paseto(claims, private_key_hex) ==
    LET key == hex_decode(private_key_hex)
    IN IF ~key.ok THEN Err(key.err)
       ELSE IF Len(key.val) < SECRET_LEN THEN Err("Invalid private key length")
       ELSE LET secret == SubSeq(key.val, 1, SECRET_LEN)
                m == to_json(claims)
                m2 == pae(HEADER, m, <<>>)
                signature == sign(secret, m2)
            IN Ok(HEADER \o b64_encode(m) \o <<DOT>> \o b64_encode(signature))

\* verify_paseto without the signature verification
verify_paseto_unverified(token, public_key_hex) ==
    IF ~StartsWith(token, HEADER) THEN Err("Invalid token header")
    ELSE LET remainder == SubSeq(token, Len(HEADER) + 1, Len(token))
             parts == SplitOn(remainder, DOT)
         IN IF Len(parts) # 2 THEN Err("Invalid token format")
            ELSE LET m == b64_decode(parts[1])
                     sig == b64_decode(parts[2])
                     pk == hex_decode(public_key_hex)
                 IN IF ~m.ok THEN Err("Invalid base64 payload")
                    ELSE IF ~sig.ok THEN Err("Invalid base64 signature")
                    ELSE IF Len(sig.val) # SIGNATURE_LEN THEN Err("Invalid signature length")
                    ELSE IF ~pk.ok THEN Err(pk.err)
                    ELSE IF Len(pk.val) # PUBLIC_LEN THEN Err("Invalid public key length")
                    ELSE IF ~is_point(pk.val) THEN Err("signature error: point")
                    ELSE from_json(m.val)

\* verify_paseto that decodes the claims before it checks the key and the signature
verify_paseto_decode_first(token, public_key_hex) ==
    IF ~StartsWith(token, HEADER) THEN Err("Invalid token header")
    ELSE LET remainder == SubSeq(token, Len(HEADER) + 1, Len(token))
             parts == SplitOn(remainder, DOT)
         IN IF Len(parts) # 2 THEN Err("Invalid token format")
            ELSE LET m == b64_decode(parts[1])
                     sig == b64_decode(parts[2])
                     pk == hex_decode(public_key_hex)
                 IN IF ~m.ok THEN Err("Invalid base64 payload")
                    ELSE IF ~sig.ok THEN Err("Invalid base64 signature")
                    ELSE IF Len(sig.val) # SIGNATURE_LEN THEN Err("Invalid signature length")
                    ELSE IF ~from_json(m.val).ok THEN from_json(m.val)
                    ELSE IF ~pk.ok THEN Err(pk.err)
                    ELSE IF Len(pk.val) # PUBLIC_LEN THEN Err("Invalid public key length")
                    ELSE IF ~is_point(pk.val) THEN Err("signature error: point")
                    ELSE IF ~verify(pk.val, pae(HEADER, m.val, <<>>), sig.val)
                         THEN Err("signature error: verification")
                    ELSE from_json(m.val)

\* verify_paseto that only rejects fewer than two segments
verify_paseto_min_parts(token, public_key_hex) ==
    IF ~StartsWith(token, HEADER) THEN Err("Invalid token header")
    ELSE LET remainder == SubSeq(token, Len(HEADER) + 1, Len(token))
             parts == SplitOn(remainder, DOT)
         IN IF Len(parts) < 2 THEN Err("Invalid token format")
            ELSE LET m == b64_decode(parts[1])
                     sig == b64_decode(parts[2])
                     pk == hex_decode(public_key_hex)
                 IN IF ~m.ok THEN Err("Invalid base64 payload")
                    ELSE IF ~sig.ok THEN Err("Invalid base64 signature")
                    ELSE IF Len(sig.val) # SIGNATURE_LEN THEN Err("Invalid signature length")
                    ELSE IF ~pk.ok THEN Err(pk.err)
                    ELSE IF Len(pk.val) # PUBLIC_LEN THEN Err("Invalid public key length")
                    ELSE IF ~is_point(pk.val) THEN Err("signature error: point")
                    ELSE IF ~verify(pk.val, pae(HEADER, m.val, <<>>), sig.val)
                         THEN Err("signature error: verification")
                    ELSE from_json(m.val)

(***************************************************************************)
(* token.rs:64-116  verify_paseto                                          *)
(***************************************************************************)
verify_paseto(token, public_key_hex) ==
    IF ~StartsWith(token, HEADER) THEN Err("Invalid token header")
    ELSE LET remainder == SubSeq(token, Len(HEADER) + 1, Len(token))
             parts == SplitOn(remainder, DOT)
         IN IF Len(parts) # 2 THEN Err("Invalid token format")
            ELSE LET m == b64_decode(parts[1])
                     sig == b64_decode(parts[2])
                     pk == hex_decode(public_key_hex)
                 IN IF ~m.ok THEN Err("Invalid base64 payload")
                    ELSE IF ~sig.ok THEN Err("Invalid base64 signature")
                    ELSE IF Len(sig.val) # SIGNATURE_LEN THEN Err("Invalid signature length")
                    ELSE IF ~pk.ok THEN Err(pk.err)
                    ELSE IF Len(pk.val) # PUBLIC_LEN THEN Err("Invalid public key length")
                    ELSE IF ~is_point(pk.val) THEN Err("signature error: point")
                    ELSE IF ~verify(pk.val, pae(HEADER, m.val, <<>>), sig.val)
                         THEN Err("signature error: verification")
                    ELSE from_json(m.val)

\* auth.rs:45-47
sign_token(claims, private_key_hex) == sign_paseto(claims, private_key_hex)

\* auth.rs:49-54
verify_token(token, public_key_hex) == verify_paseto(token, public_key_hex)

(***************************************************************************)
(* The inputs the callers hand to the token operations.                    *)
(***************************************************************************)
\* claims values signed: one and two bytes of JSON that fit the verifier's
\* target type, and three bytes that do not
ClaimValues == {7, 42, 300}

NotCalled == Err("not called")

PrivKinds == {"expanded", "seed", "seed_junk", "short", "odd", "nonhex"}

\* a private key string derived from the keypair kp = <<pub, priv>>
PrivInput(kp, kind) ==
    CASE kind = "expanded" -> kp[2]
      [] kind = "seed" -> SubSeq(kp[2], 1, 2 * SECRET_LEN)
      [] kind = "seed_junk" -> SubSeq(kp[2], 1, 2 * SECRET_LEN) \o [i \in 1..(2 * SECRET_LEN) |-> 97]
      [] kind = "short" -> SubSeq(kp[2], 1, 2 * SECRET_LEN - 2)
      [] kind = "odd" -> SubSeq(kp[2], 1, 2 * SECRET_LEN + 1)
      [] kind = "nonhex" -> [kp[2] EXCEPT ![1] = 103]

PkKinds == {"odd", "nonhex", "short", "not_point", "unknown_point"}

\* a public key string that no generate_keypair call returned
PkInput(kind) ==
    CASE kind = "odd" -> [i \in 1..(2 * PUBLIC_LEN - 1) |-> 48]
      [] kind = "nonhex" -> [i \in 1..(2 * PUBLIC_LEN) |-> 122]
      [] kind = "short" -> [i \in 1..(2 * PUBLIC_LEN - 2) |-> 48]
      [] kind = "not_point" -> hex_encode([i \in 1..PUBLIC_LEN |-> 2])
      [] kind = "unknown_point" -> hex_encode([i \in 1..PUBLIC_LEN |-> 1])

MangleKinds == {"drop_first", "bad_version", "upper_header", "no_dot", "extra_dot",
                "trailing_dot", "empty_payload", "empty_signature", "both_empty",
                "bad_payload_b64", "bad_signature_b64", "short_signature",
                "long_signature", "other_payload"}

\* a malformed variant of the well-formed token t = HEADER payload "." signature
Mangled(t, kind) ==
    LET rest == SubSeq(t, Len(HEADER) + 1, Len(t))
        d == CHOOSE i \in Positions(rest, DOT) : TRUE
        payload == SubSeq(rest, 1, d - 1)
        signature == SubSeq(rest, d + 1, Len(rest))
    IN CASE kind = "drop_first" -> SubSeq(t, 2, Len(t))
         [] kind = "bad_version" -> [t EXCEPT ![2] = 51]
         [] kind = "upper_header" -> [t EXCEPT ![1] = 86]
         [] kind = "no_dot" -> HEADER \o payload \o signature
         [] kind = "extra_dot" -> t \o <<DOT, 65, 65>>
         [] kind = "trailing_dot" -> t \o <<DOT>>
         [] kind = "empty_payload" -> HEADER \o <<DOT>> \o signature
         [] kind = "empty_signature" -> HEADER \o payload \o <<DOT>>
         [] kind = "both_empty" -> HEADER \o <<DOT>>
         [] kind = "bad_payload_b64" -> HEADER \o <<33>> \o payload \o <<DOT>> \o signature
         [] kind = "bad_signature_b64" -> HEADER \o payload \o <<DOT>> \o [signature EXCEPT ![1] = 61]
         [] kind = "short_signature" -> HEADER \o payload \o <<DOT>> \o SubSeq(signature, 1, Len(signature) - 2)
         [] kind = "long_signature" -> HEADER \o payload \o <<DOT>> \o signature \o <<65, 65>>
         [] kind = "other_payload" -> HEADER \o b64_encode(<<120>>) \o <<DOT>> \o signature

(***************************************************************************)
(* Password hash strings.  A PHC string is modelled as the sequence of the *)
(* fields that splitting it at '$' gives: the text before the first '$'    *)
(* (empty in a well-formed string), the algorithm identifier, and the      *)
(* optional version, parameters, salt and hash fields.  A field is a       *)
(* record: k its syntactic kind, s its text, n its numbers or bytes.       *)
(***************************************************************************)
EmptyField == [k |-> "empty", s |-> "", n |-> <<>>]
JunkField == [k |-> "junk", s |-> "?", n |-> <<>>]
IdentField(a) == [k |-> "ident", s |-> a, n |-> <<>>]
VersionField(v) == [k |-> "version", s |-> "v", n |-> <<v>>]
ParamsField(m, t, p) == [k |-> "params", s |-> "m,t,p", n |-> <<m, t, p>>]
B64Field(bytes) == [k |-> "b64", s |-> "", n |-> bytes]

\* PasswordHash::to_string()  (auth.rs:30): "$id$v=..$m=..,t=..,p=..$salt$hash"
phc_to_string(h) ==
    <<EmptyField, IdentField(h.algorithm)>>
        \o (IF h.version = <<>> THEN <<>> ELSE <<VersionField(h.version[1])>>)
        \o (IF h.params = <<>> THEN <<>> ELSE <<ParamsField(h.params[1], h.params[2], h.params[3])>>)
        \o (IF h.salt = <<>> THEN <<>> ELSE <<B64Field(h.salt[1])>>)
        \o (IF h.hash = <<>> THEN <<>> ELSE <<B64Field(h.hash[1])>>)

\* PasswordHash::new(hash)  (auth.rs:35): the string starts with '$' and an
\* identifier; version, parameters, salt and hash are optional, in this
\* order, and nothing follows the hash.  Absent parts are <<>>.
PasswordHash_new(s) ==
    IF Len(s) < 2 \/ s[1].k # "empty" \/ s[2].k # "ident" THEN Err("PhcStringField")
    ELSE LET r0 == SubSeq(s, 3, Len(s))
             hasV == Len(r0) >= 1 /\ r0[1].k = "version"
             r1 == IF hasV THEN Tail(r0) ELSE r0
             hasP == Len(r1) >= 1 /\ r1[1].k = "params"
             r2 == IF hasP THEN Tail(r1) ELSE r1
             hasS == Len(r2) >= 1
             r3 == IF hasS THEN Tail(r2) ELSE r2
             hasH == Len(r3) >= 1
         IN IF hasS /\ r2[1].k # "b64" THEN Err("SaltInvalid")
            ELSE IF hasH /\ r3[1].k # "b64" THEN Err("B64Encoding")
            ELSE IF Len(r3) > 1 THEN Err("PhcStringTrailingData")
            ELSE Ok([algorithm |-> s[2].s,
                     version |-> IF hasV THEN <<r0[1].n[1]>> ELSE <<>>,
                     params |-> IF hasP THEN r1[1].n ELSE <<>>,
                     salt |-> IF hasS THEN <<r2[1].n>> ELSE <<>>,
                     hash |-> IF hasH THEN <<r3[1].n>> ELSE <<>>])

(***************************************************************************)
(* Argon2 (argon2 crate), as an ideal hash: the output is an injective     *)
(* function of algorithm, version, parameters, salt and password.          *)
(***************************************************************************)
Argon2Algorithms == {"argon2d", "argon2i", "argon2id"}

AlgCode(a) == CASE a = "argon2d" -> 0 [] a = "argon2i" -> 1 [] a = "argon2id" -> 2

Argon2Versions == {V0x10, V0x13}

\* argon2::Params::new accepts the parameters
params_valid(m, t, p) == p >= 1 /\ t >= 1 /\ m >= 8 * p

argon2_output(alg, ver, m, t, p, salt, password) ==
    <<AlgCode(alg), ver, m, t, p>> \o salt \o password

\* Argon2::new(algorithm, version, params)  (auth.rs:25)
Argon2_new(alg, ver, m, t, p) == [algorithm |-> alg, version |-> ver, m |-> m, t |-> t, p |-> p]

\* Argon2::default()  (auth.rs:36)
Argon2_default == Argon2_new("argon2id", V0x13, DEFAULT_M_COST, DEFAULT_T_COST, DEFAULT_P_COST)

\* the k-th value SaltString::generate(&mut OsRng) can produce (auth.rs:11)
SALT_LEN == 16
Salt(k) == [i \in 1..SALT_LEN |-> (k * 53 + i) % 256]

\* argon2.hash_password(password, salt)  (auth.rs:27-29): hashes with the
\* algorithm, version and parameters of the context
argon2_hash_password(ctx, password, salt) ==
    [algorithm |-> ctx.algorithm,
     version |-> <<ctx.version>>,
     params |-> <<ctx.m, ctx.t, ctx.p>>,
     salt |-> <<salt>>,
     hash |-> <<argon2_output(ctx.algorithm, ctx.version, ctx.m, ctx.t, ctx.p, salt, password)>>]

\* verification that recomputes with the parameters of the verifier's context
argon2_verify_password_own_params(ctx, password, hash) ==
    IF hash.salt = <<>> \/ hash.hash = <<>> THEN Err("Password")
    ELSE IF hash.algorithm \notin Argon2Algorithms THEN Err("Algorithm")
    ELSE IF hash.version # <<>> /\ hash.version[1] \notin Argon2Versions THEN Err("Version")
    ELSE LET ver == IF hash.version = <<>> THEN V0x13 ELSE hash.version[1]
         IN IF argon2_output(hash.algorithm, ver, ctx.m, ctx.t, ctx.p, hash.salt[1], password) = hash.hash[1]
            THEN Ok(TRUE)
            ELSE Err("Password")

\* Argon2::default().verify_password(password, &parsed_hash)  (auth.rs:36):
\* without a salt or a hash in the record the answer is Error::Password;
\* otherwise the output is recomputed with the algorithm, version,
\* parameters and salt of the record (defaults for absent ones) and compared
argon2_verify_password(ctx, password, hash) ==
    IF hash.salt = <<>> \/ hash.hash = <<>> THEN Err("Password")
    ELSE LET m == IF hash.params = <<>> THEN DEFAULT_M_COST ELSE hash.params[1]
             t == IF hash.params = <<>> THEN DEFAULT_T_COST ELSE hash.params[2]
             p == IF hash.params = <<>> THEN DEFAULT_P_COST ELSE hash.params[3]
             ver == IF hash.version = <<>> THEN V0x13 ELSE hash.version[1]
         IN IF ~params_valid(m, t, p) THEN Err("ParamInvalid")
            ELSE IF ver \notin Argon2Versions THEN Err("Version")
            ELSE IF hash.algorithm \notin Argon2Algorithms THEN Err("Algorithm")
            ELSE IF argon2_output(hash.algorithm, ver, m, t, p, hash.salt[1], password) = hash.hash[1]
                 THEN Ok(TRUE)
                 ELSE Err("Password")

(***************************************************************************)
(* auth.rs:10-32  hash_password, for the salt the random source gave       *)
(***************************************************************************)
hash_password(password, salt) ==
    IF ~params_valid(M_COST, T_COST, P_COST) THEN Err("ParamInvalid")
    ELSE LET argon2 == Argon2_new("argon2id", V0x13, M_COST, T_COST, P_COST)
         IN Ok(phc_to_string(argon2_hash_password(argon2, password, salt)))

(***************************************************************************)
(* auth.rs:34-43  verify_password                                          *)
(***************************************************************************)
verify_password(hash, password) ==
    LET parsed_hash == PasswordHash_new(hash)
    IN IF ~parsed_hash.ok THEN Err(parsed_hash.err)
       ELSE LET outcome == argon2_verify_password(Argon2_default, password, parsed_hash.val)
            IN IF outcome.ok THEN Ok(TRUE)
               ELSE IF outcome.err = "Password" THEN Ok(FALSE)
               ELSE Err(outcome.err)

(***************************************************************************)
(* The inputs the callers hand to the password operations and to pae.      *)
(***************************************************************************)
\* the k-th password: k - 1 characters, the first one empty
Password(k) == [i \in 1..(k - 1) |-> 111 + i]

RecordKinds == {"drop_hash", "drop_salt_hash", "ident_only", "unknown_alg",
                "unknown_alg_no_hash", "bad_version", "bad_params", "bad_params_no_hash",
                "no_dollar", "trailing", "junk_salt", "empty_string",
                "other_hash", "lighter_preset", "argon2i"}

\* what the persistence layer hands back instead of the string s that
\* hash_password returned for the password pw and the salt
StoredAs(s, pw, salt, kind) ==
    CASE kind = "drop_hash" -> SubSeq(s, 1, Len(s) - 1)
      [] kind = "drop_salt_hash" -> SubSeq(s, 1, Len(s) - 2)
      [] kind = "ident_only" -> SubSeq(s, 1, 2)
      [] kind = "unknown_alg" -> [s EXCEPT ![2] = IdentField("scrypt")]
      [] kind = "unknown_alg_no_hash" -> SubSeq([s EXCEPT ![2] = IdentField("scrypt")], 1, Len(s) - 1)
      [] kind = "bad_version" -> [s EXCEPT ![3] = VersionField(1)]
      [] kind = "bad_params" -> [s EXCEPT ![4] = ParamsField(4, T_COST, P_COST)]
      [] kind = "bad_params_no_hash" -> SubSeq([s EXCEPT ![4] = ParamsField(4, T_COST, P_COST)], 1, Len(s) - 1)
      [] kind = "no_dollar" -> [s EXCEPT ![1] = JunkField]
      [] kind = "trailing" -> s \o <<B64Field(<<1>>)>>
      [] kind = "junk_salt" -> [s EXCEPT ![5] = JunkField]
      [] kind = "empty_string" -> <<EmptyField>>
      [] kind = "other_hash" -> [s EXCEPT ![6] = B64Field([i \in 1..32 |-> 0])]
      [] kind = "lighter_preset" -> phc_to_string(argon2_hash_password(Argon2_default, pw, salt))
      [] kind = "argon2i" -> phc_to_string(argon2_hash_password(
                                 Argon2_new("argon2i", V0x10, 64, 1, 2), pw, salt))

\* "hello"
HELLO == <<104, 101, 108, 108, 111>>

RECURSIVE BytesUpTo(_, _)
\* the sequences over the bytes B of length at most n
BytesUpTo(B, n) ==
    IF n = 0 THEN {<<>>}
    ELSE BytesUpTo(B, n - 1) \cup {Append(q, b) : q \in {r \in BytesUpTo(B, n - 1) : Len(r) = n - 1}, b \in B}

PaeHeaders == {HEADER, <<>>, <<118>>}
PaeMessages == BytesUpTo({0, 104, 255}, MaxPaeLen) \cup {HELLO, [i \in 1..256 |-> 0], [i \in 1..300 |-> 7]}
PaeFooters == {<<>>, <<0>>, <<102, 111>>}

(***************************************************************************)
(* State.                                                                  *)
(***************************************************************************)
VARIABLES
    keys,        \* the keypairs <<pub_hex, priv_hex>> generate_keypair returned
    signClaims,  \* claims argument of the sign_token call
    signKey,     \* the keypair the private key argument was derived from
    signPriv,    \* private_key_hex argument of the sign_token call
    signRes,     \* what sign_token returned
    token,       \* the token string in flight
    origin,      \* "none", "signed", "flipped" (one bit inverted) or "mangled"
    verifyPk,    \* public_key_hex argument of the verify_token call
    verifyRes,   \* what verify_token returned
    stored,      \* the password hash string in storage
    storedPw,    \* the password it was made from
    storedKind,  \* "none", "hashed" (as hash_password returned it) or a record kind
    pwTried,     \* password argument of the verify_password call
    pwRes,       \* what verify_password returned
    paeHeader,   \* arguments of the pae call
    paeM,
    paeFooter,
    paeDone,     \* pae has returned
    paeOut       \* what pae returned

tokenVars == <<keys, signClaims, signKey, signPriv, signRes, token, origin, verifyPk, verifyRes>>
pwVars == <<stored, storedPw, storedKind, pwTried, pwRes>>
paeVars == <<paeHeader, paeM, paeFooter, paeDone, paeOut>>
vars == <<tokenVars, pwVars, paeVars>>

InitToken ==
    /\ keys = {}
    /\ signClaims = 0
    /\ signKey = <<>>
    /\ signPriv = <<>>
    /\ signRes = NotCalled
    /\ token = <<>>
    /\ origin = "none"
    /\ verifyPk = <<>>
    /\ verifyRes = NotCalled

InitPassword ==
    /\ stored = <<>>
    /\ storedPw = <<>>
    /\ storedKind = "none"
    /\ pwTried = <<>>
    /\ pwRes = NotCalled

InitPae ==
    /\ paeHeader = <<>>
    /\ paeM = <<>>
    /\ paeFooter = <<>>
    /\ paeDone = FALSE
    /\ paeOut = <<>>

\* nothing has been called
Init == InitToken /\ InitPassword /\ InitPae

\* auth.rs:58-73: a caller generates a keypair; OsRng yields one of the seeds
GenerateKeypair ==
    /\ signRes = NotCalled
    /\ verifyRes = NotCalled
    /\ \E k \in 1..NumSeeds :
          /\ generate_keypair(Seed(k)) \notin keys
          /\ keys' = keys \cup {generate_keypair(Seed(k))}
    /\ UNCHANGED <<signClaims, signKey, signPriv, signRes, token, origin, verifyPk, verifyRes, pwVars, paeVars>>

\* auth.rs:45-47: a caller signs claims with a private key string
SignToken ==
    /\ signRes = NotCalled
    /\ verifyRes = NotCalled
    /\ \E c \in ClaimValues, kp \in keys, kind \in PrivKinds :
          LET r == sign_token(c, PrivInput(kp, kind))
          IN /\ signClaims' = c
             /\ signKey' = kp
             /\ signPriv' = PrivInput(kp, kind)
             /\ signRes' = r
             /\ token' = IF r.ok THEN r.val ELSE token
             /\ origin' = IF r.ok THEN "signed" ELSE origin
    /\ UNCHANGED <<keys, verifyPk, verifyRes, pwVars, paeVars>>

\* positions of the payload and signature segments of a signed token
SegmentPositions(t) == {i \in (Len(HEADER) + 1)..Len(t) : t[i] # DOT}

\* the bits of a byte of the token string; with bit 7 set the byte is not
\* ASCII, and whatever character it then belongs to is outside the alphabet
CharBits == 0..7

\* the token is corrupted in transit: one bit of one segment is inverted
FlipTokenBit ==
    /\ origin = "signed"
    /\ signPriv = signKey[2]
    /\ verifyRes = NotCalled
    /\ \E i \in SegmentPositions(token), b \in CharBits :
          token' = [token EXCEPT ![i] = FlipBit(token[i], b)]
    /\ origin' = "flipped"
    /\ UNCHANGED <<keys, signClaims, signKey, signPriv, signRes, verifyPk, verifyRes, pwVars, paeVars>>

\* a malformed token is presented instead of the signed one
MangleToken ==
    /\ origin = "signed"
    /\ signPriv = signKey[2]
    /\ verifyRes = NotCalled
    /\ \E kind \in MangleKinds : token' = Mangled(token, kind)
    /\ origin' = "mangled"
    /\ UNCHANGED <<keys, signClaims, signKey, signPriv, signRes, verifyPk, verifyRes, pwVars, paeVars>>

\* auth.rs:49-54: a caller verifies the token in flight under a public key;
\* a token corrupted in transit reaches a verifier that holds a generated key
VerifyToken ==
    /\ verifyRes = NotCalled
    /\ \E pk \in {kp[1] : kp \in keys}
                \cup (IF origin = "flipped" THEN {} ELSE {PkInput(kind) : kind \in PkKinds}) :
          /\ verifyPk' = pk
          /\ verifyRes' = verify_token(token, pk)
    /\ UNCHANGED <<keys, signClaims, signKey, signPriv, signRes, token, origin, pwVars, paeVars>>

\* the token operations
Next == GenerateKeypair \/ SignToken \/ FlipTokenBit \/ MangleToken \/ VerifyToken

Spec == Init /\ [][Next]_vars

\* auth.rs:10-32: a caller hashes a password; OsRng yields one of the salts
HashPassword ==
    /\ storedKind = "none"
    /\ \E pw \in {Password(k) : k \in 1..NumPasswords}, salt \in {Salt(k) : k \in 1..NumSalts} :
          /\ hash_password(pw, salt).ok
          /\ stored' = hash_password(pw, salt).val
          /\ storedPw' = pw
    /\ storedKind' = "hashed"
    /\ UNCHANGED <<pwTried, pwRes, tokenVars, paeVars>>

\* the persistence layer hands back a damaged or a foreign record
DamageRecord ==
    /\ storedKind = "hashed"
    /\ pwRes = NotCalled
    /\ \E kind \in RecordKinds, salt \in {Salt(k) : k \in 1..NumSalts} :
          /\ stored[5] = B64Field(salt)
          /\ stored' = StoredAs(stored, storedPw, salt, kind)
          /\ storedKind' = kind
    /\ UNCHANGED <<storedPw, pwTried, pwRes, tokenVars, paeVars>>

\* auth.rs:34-43: a caller verifies a password against the stored string
VerifyPassword ==
    /\ storedKind # "none"
    /\ pwRes = NotCalled
    /\ \E pw \in {Password(k) : k \in 1..NumPasswords} :
          /\ pwTried' = pw
          /\ pwRes' = verify_password(stored, pw)
    /\ UNCHANGED <<stored, storedPw, storedKind, tokenVars, paeVars>>

\* the password operations
NextPassword == HashPassword \/ DamageRecord \/ VerifyPassword

SpecPassword == Init /\ [][NextPassword]_vars

\* the encoder is handed any of the inputs
InitEncoder ==
    /\ InitToken
    /\ InitPassword
    /\ paeHeader \in PaeHeaders
    /\ paeM \in PaeMessages
    /\ paeFooter \in PaeFooters
    /\ paeDone = FALSE
    /\ paeOut = <<>>

\* token.rs:119-134: pae is applied to its inputs
Encode ==
    /\ ~paeDone
    /\ paeOut' = pae(paeHeader, paeM, paeFooter)
    /\ paeDone' = TRUE
    /\ UNCHANGED <<paeHeader, paeM, paeFooter, tokenVars, pwVars>>

NextEncoder == Encode

SpecEncoder == InitEncoder /\ [][NextEncoder]_vars


(***************************************************************************)
(* The token as the claims describe it, read off the string itself.        *)
(***************************************************************************)
Called(r) == r # NotCalled

\* what follows the header literal
Remainder(t) == SubSeq(t, Len(HEADER) + 1, Len(t))

\* position of the first dot of the remainder, 0 when it has none
FirstDot(t) ==
    IF Positions(Remainder(t), DOT) = {} THEN 0
    ELSE CHOOSE i \in Positions(Remainder(t), DOT) : \A j \in Positions(Remainder(t), DOT) : i <= j

PayloadSegment(t) == SubSeq(Remainder(t), 1, FirstDot(t) - 1)

SignatureSegment(t) == SubSeq(Remainder(t), FirstDot(t) + 1, Len(Remainder(t)))

HeaderGate(t) == Len(t) >= Len(HEADER) /\ \A i \in 1..Len(HEADER) : t[i] = HEADER[i]

StructureGate(t) == Cardinality(Positions(Remainder(t), DOT)) = 1

PayloadGate(t) == b64_decode(PayloadSegment(t)).ok

SignatureGate(t) == b64_decode(SignatureSegment(t)).ok

LengthGate(t) == SignatureGate(t) /\ Len(b64_decode(SignatureSegment(t)).val) = SIGNATURE_LEN

KeyGate(pk) == hex_decode(pk).ok /\ Len(hex_decode(pk).val) = PUBLIC_LEN

CryptoGate(t, pk) ==
    /\ KeyGate(pk) /\ PayloadGate(t) /\ SignatureGate(t)
    /\ is_point(hex_decode(pk).val)
    /\ verify(hex_decode(pk).val,
              pae(HEADER, b64_decode(PayloadSegment(t)).val, <<>>),
              b64_decode(SignatureSegment(t)).val)

SchemaGate(t) == PayloadGate(t) /\ from_json(b64_decode(PayloadSegment(t)).val).ok

\* the gate an error message belongs to
ErrGate(e) ==
    CASE e = "Invalid token header" -> 1
      [] e = "Invalid token format" -> 2
      [] e = "Invalid base64 payload" -> 3
      [] e = "Invalid base64 signature" -> 4
      [] e = "Invalid signature length" -> 5
      [] e \in {"Odd number of digits", "Invalid character", "Invalid public key length"} -> 6
      [] e \in {"signature error: point", "signature error: verification"} -> 7
      [] OTHER -> 8

\* gate g passes for the token and the public key
GatePasses(g, t, pk) ==
    CASE g = 1 -> HeaderGate(t)
      [] g = 2 -> StructureGate(t)
      [] g = 3 -> PayloadGate(t)
      [] g = 4 -> SignatureGate(t)
      [] g = 5 -> LengthGate(t)
      [] g = 6 -> KeyGate(pk)
      [] g = 7 -> CryptoGate(t, pk)
      [] g = 8 -> SchemaGate(t)

\* the token in flight is the one sign_token returned for a generated keypair
SignedWithGeneratedKey == origin = "signed" /\ signPriv = signKey[2]

(***************************************************************************)
(* C1  Token round trip: sign_token with the private key of a generated    *)
(* keypair succeeds, and verify_token of the returned token under the      *)
(* public key of that keypair succeeds and returns the signed claims, for  *)
(* every claims value of the verifier's claims type.                       *)
(***************************************************************************)
C1_RoundTrip ==
    /\ (Called(signRes) /\ signPriv = signKey[2]) => signRes.ok
    /\ (SignedWithGeneratedKey /\ signClaims <= U8_MAX /\ Called(verifyRes) /\ verifyPk = signKey[1])
          => verifyRes = Ok(signClaims)

C1_Witness ==
    /\ SignedWithGeneratedKey
    /\ signClaims = 42
    /\ verifyPk = signKey[1]
    /\ verifyRes = Ok(42)

(***************************************************************************)
(* C2  verify_token returns claims only if the token starts with the       *)
(* header, has the two-segment shape, both segments decode as unpadded     *)
(* URL-safe base64, the signature is 64 bytes, the public key decodes to   *)
(* 32 bytes and the signature verifies under that key over                 *)
(* PAE(header, decoded message, empty footer); the claims returned are     *)
(* those decoded from these verified message bytes.                        *)
(***************************************************************************)
C2_OkOnlyIfAllGates ==
    (Called(verifyRes) /\ verifyRes.ok) =>
        /\ HeaderGate(token)
        /\ StructureGate(token)
        /\ PayloadGate(token)
        /\ SignatureGate(token)
        /\ LengthGate(token)
        /\ KeyGate(verifyPk)
        /\ CryptoGate(token, verifyPk)
        /\ from_json(b64_decode(PayloadSegment(token)).val) = Ok(verifyRes.val)

C2_Witness ==
    /\ origin = "signed"
    /\ Called(verifyRes)
    /\ verifyRes.ok
    /\ CryptoGate(token, verifyPk)

(***************************************************************************)
(* C3  Tamper sensitivity: a token signed under a generated keypair with   *)
(* one bit of its payload or signature segment inverted is rejected by     *)
(* verify_token under the public key of that keypair.                      *)
(***************************************************************************)
C3_TamperRejected ==
    (origin = "flipped" /\ Called(verifyRes) /\ verifyPk = signKey[1]) => ~verifyRes.ok

\* the inverted bit is one of the unused low bits of the last symbol of
\* the signature segment
C3_Witness ==
    /\ origin = "flipped"
    /\ verifyPk = signKey[1]
    /\ Called(verifyRes)
    /\ ~verifyRes.ok
    /\ token[Len(token)] # signRes.val[Len(token)]
    /\ B64Val(token[Len(token)]) # -1
    /\ B64Val(token[Len(token)]) \div 16 = B64Val(signRes.val[Len(token)]) \div 16

(***************************************************************************)
(* C4  Cross-key rejection: a token signed with the private key of one     *)
(* generated keypair is rejected under the public key of another generated *)
(* keypair, with the signature verification error.                         *)
(***************************************************************************)
C4_CrossKeyRejected ==
    (/\ SignedWithGeneratedKey
     /\ Called(verifyRes)
     /\ \E kp \in keys : kp[1] = verifyPk /\ kp # signKey)
        => verifyRes = Err("signature error: verification")

C4_Witness ==
    /\ SignedWithGeneratedKey
    /\ \E kp \in keys : kp[1] = verifyPk /\ kp # signKey
    /\ verifyRes = Err("signature error: verification")

(***************************************************************************)
(* C5  Gate order: verify_token succeeds exactly when the eight gates      *)
(* (header, structure, payload base64, signature base64, signature length, *)
(* public key, signature verification, claims decoding) all pass, and      *)
(* otherwise reports the error of a gate that fails while every earlier    *)
(* gate passes.                                                            *)
(***************************************************************************)
C5_FirstFailingGate ==
    Called(verifyRes) =>
        IF verifyRes.ok
        THEN \A g \in 1..8 : GatePasses(g, token, verifyPk)
        ELSE /\ \A g \in 1..(ErrGate(verifyRes.err) - 1) : GatePasses(g, token, verifyPk)
             /\ ~GatePasses(ErrGate(verifyRes.err), token, verifyPk)

\* a bad signature over a payload that is not claims: the cryptographic
\* error is reported, not the schema error
C5_Witness ==
    /\ origin = "mangled"
    /\ Called(verifyRes)
    /\ HeaderGate(token) /\ StructureGate(token) /\ PayloadGate(token)
    /\ ~SchemaGate(token)
    /\ verifyPk = signKey[1]
    /\ verifyRes = Err("signature error: verification")

(***************************************************************************)
(* C6 as stated: a token that starts with the header and whose remainder   *)
(* is not exactly two non-empty dot-separated segments gets the structure  *)
(* error.                                                                  *)
(***************************************************************************)
TwoNonEmptySegments(t) ==
    /\ StructureGate(t)
    /\ PayloadSegment(t) # <<>>
    /\ SignatureSegment(t) # <<>>

C6_Original ==
    (Called(verifyRes) /\ HeaderGate(token) /\ ~TwoNonEmptySegments(token))
        => verifyRes = Err("Invalid token format")

(***************************************************************************)
(* C6 amended: a token that starts with the header gets the structure      *)
(* error exactly when its remainder does not have exactly one dot.  With   *)
(* one dot, an empty signature segment after a decodable payload segment   *)
(* gets the signature length error, and an empty payload segment passes    *)
(* the payload decoding: an error, if any, is that of a later gate.        *)
(***************************************************************************)
C6_Amended ==
    (Called(verifyRes) /\ HeaderGate(token)) =>
        /\ (verifyRes = Err("Invalid token format")) <=> ~StructureGate(token)
        /\ (StructureGate(token) /\ PayloadGate(token) /\ SignatureSegment(token) = <<>>)
              => verifyRes = Err("Invalid signature length")
        /\ (StructureGate(token) /\ PayloadSegment(token) = <<>>)
              => verifyRes.ok \/ ErrGate(verifyRes.err) > 3

C6_Witness ==
    /\ origin = "mangled"
    /\ HeaderGate(token)
    /\ StructureGate(token)
    /\ PayloadSegment(token) # <<>>
    /\ SignatureSegment(token) = <<>>
    /\ verifyRes = Err("Invalid signature length")

(***************************************************************************)
(* C10  sign_token private key handling: a key string that is not hex      *)
(* gets the hex decoding error, one that decodes to fewer than 32 bytes    *)
(* the length error, and for one that decodes to 32 bytes or more the      *)
(* token is the one made from the claims and the first 32 bytes alone.     *)
(***************************************************************************)
\* the token for claims c signed with the 32-byte secret
TokenOf(c, secret) ==
    HEADER \o b64_encode(to_json(c)) \o <<DOT>>
           \o b64_encode(sign(secret, pae(HEADER, to_json(c), <<>>)))

\* the seed of the keypair the private key argument was derived from
SignSeed == SubSeq(hex_decode(signKey[2]).val, 1, SECRET_LEN)

C10_PrivateKeyHandling ==
    Called(signRes) =>
        LET key == hex_decode(signPriv)
        IN IF ~key.ok THEN ~signRes.ok /\ signRes.err \in {"Odd number of digits", "Invalid character"}
           ELSE IF Len(key.val) < SECRET_LEN THEN signRes = Err("Invalid private key length")
           ELSE /\ SubSeq(key.val, 1, SECRET_LEN) = SignSeed
                /\ signRes = Ok(TokenOf(signClaims, SignSeed))

\* signed with the seed followed by 32 bytes that are not the public key
C10_Witness ==
    /\ Called(signRes)
    /\ signRes.ok
    /\ Len(signPriv) = 2 * PRIVATE_LEN
    /\ signPriv # signKey[2]
    /\ signRes = Ok(TokenOf(signClaims, SignSeed))

(***************************************************************************)
(* C7  Password round trip: against the string hash_password returned,     *)
(* verify_password returns true for the hashed password and false for any  *)
(* other; the string carries the preset of hash_password, which differs    *)
(* from the default parameters the verifier is built from.                 *)
(***************************************************************************)
C7_PasswordRoundTrip ==
    storedKind = "hashed" =>
        /\ PasswordHash_new(stored).ok
        /\ PasswordHash_new(stored).val.params = <<M_COST, T_COST, P_COST>>
        /\ <<M_COST, T_COST, P_COST>> # <<Argon2_default.m, Argon2_default.t, Argon2_default.p>>
        /\ Called(pwRes) => pwRes = Ok(pwTried = storedPw)

C7_Witness ==
    /\ storedKind = "hashed"
    /\ pwTried = storedPw
    /\ pwRes = Ok(TRUE)

(***************************************************************************)
(* C8  Boolean/error split of verify_password: it returns an error exactly *)
(* when the stored string is malformed or names an unrecognised algorithm, *)
(* an unsupported version or unsupported parameters, and a boolean for     *)
(* every other stored string.                                              *)
(***************************************************************************)
\* the stored string parses and names an algorithm, a version and
\* parameters that Argon2 supports
Supported(s) ==
    /\ PasswordHash_new(s).ok
    /\ LET h == PasswordHash_new(s).val
       IN /\ h.algorithm \in Argon2Algorithms
          /\ h.version # <<>> => h.version[1] \in Argon2Versions
          /\ h.params # <<>> => params_valid(h.params[1], h.params[2], h.params[3])

C8_BooleanErrorSplit == Called(pwRes) => (pwRes.ok <=> Supported(stored))

(***************************************************************************)
(* C9 as stated: pae(header, m, footer) is                                 *)
(* LE64(3) LE64(len header) header LE64(len m) m LE64(len footer) footer,  *)
(* and its length is 24 + len(header) + len(m) + len(footer).              *)
(***************************************************************************)
\* the number that the 8 bytes of o from position i encode, least
\* significant byte first (-1 when it does not fit 31 bits)
LeValue(o, i) ==
    IF o[i + 3] > 127 \/ \E j \in 4..7 : o[i + j] # 0 THEN -1
    ELSE o[i] + 256 * o[i + 1] + 65536 * o[i + 2] + 16777216 * o[i + 3]

\* o consists of the count 3 and the three length-prefixed pieces
PaeLayout(o, h, m, f) ==
    LET hAt == 9
        mAt == hAt + 8 + Len(h)
        fAt == mAt + 8 + Len(m)
    IN /\ Len(o) >= fAt + 7
       /\ LeValue(o, 1) = 3
       /\ LeValue(o, hAt) = Len(h)
       /\ SubSeq(o, hAt + 8, mAt - 1) = h
       /\ LeValue(o, mAt) = Len(m)
       /\ SubSeq(o, mAt + 8, fAt - 1) = m
       /\ LeValue(o, fAt) = Len(f)
       /\ SubSeq(o, fAt + 8, Len(o)) = f

C9_Original ==
    paeDone =>
        /\ PaeLayout(paeOut, paeHeader, paeM, paeFooter)
        /\ Len(paeOut) = 24 + Len(paeHeader) + Len(paeM) + Len(paeFooter)

(***************************************************************************)
(* C9 amended: the layout is as stated, an empty footer included as        *)
(* LE64(0), and the length is 32 + len(header) + len(m) + len(footer):     *)
(* 47 bytes for header "v4.public.", m "hello" and the empty footer.       *)
(***************************************************************************)
C9_Amended ==
    paeDone =>
        /\ PaeLayout(paeOut, paeHeader, paeM, paeFooter)
        /\ Len(paeOut) = 32 + Len(paeHeader) + Len(paeM) + Len(paeFooter)
        /\ (paeHeader = HEADER /\ paeM = HELLO /\ paeFooter = <<>>) =>
              paeOut = <<3, 0, 0, 0, 0, 0, 0, 0, 10, 0, 0, 0, 0, 0, 0, 0>> \o HEADER
                       \o <<5, 0, 0, 0, 0, 0, 0, 0>> \o HELLO \o <<0, 0, 0, 0, 0, 0, 0, 0>>

C9_Witness ==
    /\ paeDone
    /\ paeHeader = HEADER /\ paeM = HELLO /\ paeFooter = <<>>
    /\ Len(paeOut) = 47

====
